---------------------------- MODULE Spec2Model ----------------------------
(***************************************************************************)
(* A model of the retrieval-augmented chat backend:                        *)
(*   src/app.py                    the /chat and /update-feedback handlers *)
(*   src/utils/llm_invoke.py       search, prompt assembly, retry loop     *)
(*   src/utils/cosmos_connection.py  the history reads                     *)
(* The Cosmos container, the search index and the hosted model are         *)
(* external collaborators: every call to one of them is one step, and its  *)
(* outcome (a result or an exception) is chosen nondeterministically.      *)
(* Texts are sequences of tokens, item ids are positive integers (0 is the *)
(* empty string), timestamps are integers, scores are integers in units of *)
(* 10^-5.                                                                  *)
(* Specifications: Spec (the service, two concurrent requests), SpecGen    *)
(* (one call of the generation path, any max_retries), SpecHist (one       *)
(* history fetch on any small store), SpecFb (update_feedback calls on any *)
(* small store).                                                           *)
(***************************************************************************)
EXTENDS Integers, Sequences, FiniteSets, TLC

VARIABLES
    container,       \* the Cosmos container: the items, in creation order
    clock,           \* the last value datetime.utcnow() returned
    nextId,          \* the number of uuid4() values drawn so far, plus one
    cosmos_enabled,  \* cosmos_connection.cosmos_enabled
    started,         \* requests accepted so far
    pc,              \* per request task: where it stands
    req,             \* per request task: the request (or call arguments)
    loc,             \* per request task: the local variables
    resp,            \* per request task: what the caller received
    obs              \* per request task: what the task did (observation only)

vars == <<container, clock, nextId, cosmos_enabled, started, pc, req, loc, resp, obs>>

---------------------------------------------------------------------------
(* Bounds of the model *)

MaxRequests == 2
MaxChunks == 3
MaxRetriesArg == 4
MaxTurns == 3
MaxLimit == 2

(* Program constants *)

DefaultMaxRetries == 3
TopK == 5
HistoryLimit == 5
AttributionCount == 2

Procs == {"t1", "t2"}
GenProcs == {"t1"}

EmptyStr == ""
EmptyId == 0
SessionIds == {"a", "b"}
\* the (session_id, user_id) pairs of the chat requests: a session id may
\* coincide with a user id
ChatKeys == {<<"a", "a">>, <<"a", "u">>, <<"b", "u">>}
Messages == {<<"q">>}
Answers == {<<"ans">>}
\* choice.message.content is Optional[str]: None is a reserved token here, and
\* NoneText is what an f-string makes of it
NoneContent == <<"<None>">>
NoneText == <<"None">>
AllAnswers == Answers \cup {NoneContent}
ElapsedNote == <<"_Response time_">>
FeedbackValues == {"positive", "negative", "neutral"}

(* A raw search hit: "@search.score" and "@search.rerankerScore" in units  *)
(* of 10^-5; Missing is a hit without the key.                             *)
Missing == -1
ChunkA == [content |-> "A", score |-> 3100, rerank |-> 90000]
ChunkB == [content |-> "B", score |-> 1604, rerank |-> 50000]
ChunkC == [content |-> "C", score |-> 1615, rerank |-> 20000]
ChunkD == [content |-> "D", score |-> 2000, rerank |-> 90004]
ChunkE == [content |-> "E", score |-> Missing, rerank |-> Missing]
Chunks == {ChunkA, ChunkB, ChunkC}
MainReplies == {<<ChunkC, ChunkA, ChunkB>>}

MainTicks == {1}
AllTicks == {0, 1}
MainOutcomes == {"ok", "error"}
AllOutcomes == {"ok", "error", "malformed"}

SeqsUpTo(S, n) == UNION {[1..k -> S] : k \in 0..n}
\* replies longer than top_k, with equal scores, with a hit without scores
LongReplies == {<<ChunkC, ChunkB, ChunkC, ChunkB, ChunkC, ChunkA>>,
                <<ChunkB, ChunkB, ChunkB, ChunkB, ChunkB, ChunkD, ChunkA>>,
                <<ChunkE, ChunkD, ChunkA>>, <<ChunkE, ChunkE>>}
AllReplies == SeqsUpTo(Chunks, MaxChunks) \cup LongReplies

Min(a, b) == IF a <= b THEN a ELSE b
Prefix(s, n) == SubSeq(s, 1, Min(n, Len(s)))

---------------------------------------------------------------------------
(* Python helpers *)

\* sorted(seq, key=..., reverse=desc): a stable sort; keys[i] is the key of seq[i]
Before(keys, desc, j, i) ==
    \/ (IF desc THEN keys[j] > keys[i] ELSE keys[j] < keys[i])
    \/ (keys[j] = keys[i] /\ j < i)

Rank(keys, desc, i) == 1 + Cardinality({j \in DOMAIN keys : Before(keys, desc, j, i)})

Sorted(seq, keys, desc) ==
    [r \in 1..Len(seq) |-> seq[CHOOSE i \in DOMAIN seq : Rank(keys, desc, i) = r]]

\* dict.get(key, 0) on a search hit
Get0(v) == IF v = Missing THEN 0 ELSE v

\* round(x, 4) for x in units of 10^-5, result in units of 10^-5 (half to even)
Round4(v) ==
    LET q == v \div 10
        r == v % 10
    IN  IF r < 5 THEN 10 * q
        ELSE IF r > 5 THEN 10 * (q + 1)
        ELSE IF q % 2 = 0 THEN 10 * q ELSE 10 * (q + 1)

---------------------------------------------------------------------------
(* The document store (azure.cosmos container) *)

\* mutant: the id is drawn once, when the module is loaded
NewIdStale(n) == 1

\* str(uuid.uuid4()): the n-th value drawn differs from those drawn before
NewId(n) == n

\* mutant: session_id and user_id change places in the item
NewMessageSwapped(id, session_id, user_id, role, content, timestamp, top_chunks) ==
    [id |-> id, session_id |-> user_id, user_id |-> session_id,
     user_roles |-> <<>>, role |-> role, content |-> content,
     timestamp |-> timestamp, feedback |-> "null", top_chunks |-> top_chunks]

\* save_message_to_cosmos builds this item (app.py)
NewMessage(id, session_id, user_id, role, content, timestamp, top_chunks) ==
    [id |-> id, session_id |-> session_id, user_id |-> user_id,
     user_roles |-> <<>>, role |-> role, content |-> content,
     timestamp |-> timestamp, feedback |-> "null", top_chunks |-> top_chunks]

\* mutant: a turn with the session, user, role and content of a stored turn
\* is written over that turn (an upsert keyed by what the turn says)
CreateItemUpsert(c, message) ==
    LET Same(it) == /\ it.session_id = message.session_id /\ it.user_id = message.user_id
                    /\ it.role = message.role /\ it.content = message.content
    IN  IF \E i \in DOMAIN c : Same(c[i])
        THEN [i \in DOMAIN c |-> IF Same(c[i]) THEN message ELSE c[i]]
        ELSE Append(c, message)

\* container.create_item(body=message)
CreateItem(c, message) == Append(c, message)

\* SELECT * FROM c WHERE c.id = @id
QueryById(c, id) == SelectSeq(c, LAMBDA it : it.id = id)

\* mutant: the item is written as a new record instead of replacing the old one
ReplaceItemAppend(c, id, body) == Append(c, body)

\* container.replace_item(item=message_id, body=item)
ReplaceItem(c, id, body) ==
    [i \in DOMAIN c |-> IF c[i].id = id THEN body ELSE c[i]]

\* ... WHERE c.user_id = @user_id ORDER BY c.timestamp DESC
QueryByUser(c, user_id) ==
    LET hits == SelectSeq(c, LAMBDA it : it.user_id = user_id)
    IN  Sorted(hits, [i \in DOMAIN hits |-> hits[i].timestamp], TRUE)

\* SELECT c.id, c.role, c.content, c.timestamp ... WHERE c.user_id = @user_id
\* AND c.session_id = @session_id ORDER BY c.timestamp DESC
QueryBySession(c, user_id, session_id) ==
    LET hits == SelectSeq(c, LAMBDA it : it.user_id = user_id /\ it.session_id = session_id)
        proj == [i \in DOMAIN hits |->
                    [id |-> hits[i].id, role |-> hits[i].role,
                     content |-> hits[i].content, timestamp |-> hits[i].timestamp]]
    IN  Sorted(proj, [i \in DOMAIN proj |-> proj[i].timestamp], TRUE)

---------------------------------------------------------------------------
(* History Store Adapter (cosmos_connection.py) *)

\* the loop of get_latest_session_ids over items[k..]: append the unseen
\* session, then stop once len(unique_sessions) >= limit
RECURSIVE DedupLimit(_, _, _, _)
DedupLimit(items, k, unique, limit) ==
    IF k > Len(items) THEN unique
    ELSE LET sid == items[k].session_id
             u2 == IF \E j \in DOMAIN unique : unique[j] = sid
                   THEN unique ELSE Append(unique, sid)
         IN  IF Len(u2) >= limit THEN u2
             ELSE DedupLimit(items, k + 1, u2, limit)

\* get_latest_session_ids once its query has returned
get_latest_session_ids(c, user_id, limit) ==
    DedupLimit(QueryByUser(c, user_id), 1, <<>>, limit)

\* the per-session block of get_last_messages_from_cosmos
SessionBlock(c, user_id, session_id) ==
    LET items == QueryBySession(c, user_id, session_id)
    IN  [session_id |-> session_id,
         messages |-> Sorted(items, [i \in DOMAIN items |-> items[i].timestamp], FALSE)]

\* mutant: the except clause of the loop ends the loop (break for continue)
RECURSIVE CollectSessionsBreak(_, _, _, _, _)
CollectSessionsBreak(c, user_id, session_ids, k, failing) ==
    IF k > Len(session_ids) THEN <<>>
    ELSE IF session_ids[k] \in failing THEN <<>>
    ELSE <<SessionBlock(c, user_id, session_ids[k])>>
            \o CollectSessionsBreak(c, user_id, session_ids, k + 1, failing)

\* the loop of get_last_messages_from_cosmos over session_ids[k..]; the
\* sessions in failing are those whose query raises (and are skipped)
RECURSIVE CollectSessions(_, _, _, _, _)
CollectSessions(c, user_id, session_ids, k, failing) ==
    IF k > Len(session_ids) THEN <<>>
    ELSE LET rest == CollectSessions(c, user_id, session_ids, k + 1, failing)
         IN  IF session_ids[k] \in failing THEN rest
             ELSE <<SessionBlock(c, user_id, session_ids[k])>> \o rest

\* get_last_messages_from_cosmos(user_id, limit); idsFail: the session-id
\* query raises; failing: the sessions whose message query raises
get_last_messages_from_cosmos(c, enabled, user_id, limit, idsFail, failing) ==
    IF ~enabled THEN <<>>
    ELSE IF idsFail THEN <<>>
    ELSE LET session_ids == get_latest_session_ids(c, user_id, limit)
         IN  IF session_ids = <<>> THEN <<>>
             ELSE CollectSessions(c, user_id, session_ids, 1, failing)

\* whether the session-id query raises: it is not made when the store is
\* disabled
ReadOutcomes(enabled) == IF enabled THEN BOOLEAN ELSE {FALSE}

\* the sessions whose message query is made, and so may raise
QueriedSessions(c, enabled, user_id, limit, idsFail) ==
    IF ~enabled \/ idsFail THEN {}
    ELSE LET session_ids == get_latest_session_ids(c, user_id, limit)
         IN  {session_ids[k] : k \in DOMAIN session_ids}

---------------------------------------------------------------------------
(* Retrieval Client and Context Assembler (llm_invoke.py) *)

\* mutant: the hits are sorted by "@search.score"
query_azure_search_by_score(results, top_k) ==
    Prefix(Sorted(results, [i \in DOMAIN results |-> Get0(results[i].score)], TRUE), top_k)

\* query_azure_search after response.json(): sort by reranker score, cut
query_azure_search(results, top_k) ==
    Prefix(Sorted(results, [i \in DOMAIN results |-> Get0(results[i].rerank)], TRUE), top_k)

\* the dict built for each of top_chunks[:2] in the return statement
Attribution(chunk) ==
    [content |-> chunk.content,
     search_score |-> Round4(Get0(chunk.score)),
     reranker_score |-> Round4(Get0(chunk.rerank))]

TopAttributions(top_chunks) ==
    LET cut == Prefix(top_chunks, AttributionCount)
    IN  [i \in DOMAIN cut |-> Attribution(cut[i])]

\* chat_prompt: msg["role"], msg["content"] for each msg of cosmos_messages,
\* then the assembled prompt; a msg without those keys raises KeyError
PromptRaises(cosmos_messages) ==
    \E i \in DOMAIN cosmos_messages :
        ~({"role", "content"} \subseteq DOMAIN cosmos_messages[i])

BuildChatPrompt(cosmos_messages, top_chunks, user_input) ==
    [i \in DOMAIN cosmos_messages |->
        [role |-> cosmos_messages[i].role, content |-> cosmos_messages[i].content]]
    \o <<[role |-> "user", content |-> <<"header", top_chunks, "QUESTION", user_input, "?">>]>>

---------------------------------------------------------------------------
(* Request tasks *)

NoData == [kind |-> "none", response |-> <<>>, top_chunks |-> <<>>]
NoReq == [op |-> "none", message |-> <<>>, session_id |-> EmptyStr, user_id |-> EmptyStr,
          id |-> EmptyId, feedback |-> EmptyStr, max_retries |-> 0, limit |-> 0]
NoLoc == [cosmos_messages |-> <<>>, top_chunks |-> <<>>, chat_prompt |-> <<>>,
          attempt |-> 0, last_error |-> "none", response_data |-> NoData, items |-> <<>>]
NoResp == [kind |-> "none", status |-> 0, error |-> "none", data |-> NoData,
           scores |-> <<>>, messageId |-> EmptyId, feedback |-> EmptyStr, history |-> <<>>]
\* what a task did: calls of the search oracle and of the generation oracle,
\* sleeps, store reads and writes (update_feedback), failed attempts, the
\* outcome of the last attempt, the ids of the turns it appended, the search
\* oracle's reply, whether the search call, the lookup by id or a store
\* write failed, whether the session-id query of a history fetch failed and
\* the sessions whose message query failed
NoObs == [search |-> 0, gen |-> 0, sleep |-> 0, reads |-> 0, writes |-> 0,
          fails |-> 0, last |-> "none", userTurn |-> 0, asstTurn |-> 0, raw |-> <<>>,
          searchFailed |-> FALSE, lookupFailed |-> FALSE, writeFailed |-> FALSE,
          idsFailed |-> FALSE, failing |-> {}]

\* JSONResponse(content={"error": ...}, status_code=...)
JsonError(status, error) == [NoResp EXCEPT !.kind = "json", !.status = status, !.error = error]

\* mutant: the except clause answers 200 with an empty fallback answer
ChatExceptFallback(e) == [NoResp EXCEPT !.kind = "json", !.status = 200]

\* chat's except clause (app.py, lines 162-163)
ChatExcept(e) == JsonError(500, e)

\* datetime.datetime.utcnow(): the clock never runs backwards here; ticks are
\* the amounts by which it may have advanced since the last read (0: the two
\* reads return the same value)
ClockReads(ticks) == {clock + d : d \in ticks}

\* the positional call call_llm_async_with_retry(request.message, request.session_id)
\* binds max_retries to its default
ChatRequest(message, session_id, user_id) ==
    [NoReq EXCEPT !.op = "chat", !.message = message, !.session_id = session_id,
                  !.user_id = user_id, !.max_retries = DefaultMaxRetries]

\* a direct call call_llm_async_with_retry(user_input, session_id, max_retries)
GenerateCall(user_input, session_id, max_retries) ==
    [NoReq EXCEPT !.op = "generate", !.message = user_input, !.session_id = session_id,
                  !.max_retries = max_retries]

FeedbackRequest(id, feedback, sessionId) ==
    [NoReq EXCEPT !.op = "feedback", !.id = id, !.feedback = feedback, !.session_id = sessionId]

\* the first argument of get_last_messages_from_cosmos in call_llm_async_with_retry
HistoryKey(r) == r.session_id

\* mutant: the HTTP status of the search response is not checked
RaiseForStatusNever(ok) == FALSE

\* response.raise_for_status() (llm_invoke.py, line 52)
RaiseForStatus(ok) == ~ok

\* an exception leaves call_llm_async_with_retry: chat's except clause turns
\* it into a response; a direct caller sees it raised
Raise(p, e, o) ==
    /\ pc' = [pc EXCEPT ![p] = "done"]
    /\ resp' = [resp EXCEPT ![p] =
                  IF req[p].op = "chat" THEN ChatExcept(e)
                  ELSE [NoResp EXCEPT !.kind = "raise", !.error = e]]
    /\ obs' = [obs EXCEPT ![p] = o]

\* call_llm_async_with_retry returns data: chat goes on, a direct caller is done
Return(p, data, o) ==
    /\ pc' = [pc EXCEPT ![p] = IF req[p].op = "chat" THEN "chat_save_assistant" ELSE "done"]
    /\ resp' = [resp EXCEPT ![p] =
                  IF req[p].op = "chat" THEN NoResp
                  ELSE [NoResp EXCEPT !.kind = "return", !.data = data]]
    /\ obs' = [obs EXCEPT ![p] = o]

StartChat(p, limit) ==
    /\ pc[p] = "idle"
    /\ started < limit
    /\ \E m \in Messages, k \in ChatKeys :
          req' = [req EXCEPT ![p] = ChatRequest(m, k[1], k[2])]
    /\ pc' = [pc EXCEPT ![p] = "chat_save_user"]
    /\ started' = started + 1
    /\ obs' = [obs EXCEPT ![p] = NoObs]
    /\ UNCHANGED <<container, clock, nextId, cosmos_enabled, loc, resp>>

StartGenerate(p, limit) ==
    /\ pc[p] = "idle"
    /\ started < limit
    /\ \E m \in Messages, sid \in SessionIds, n \in 0..MaxRetriesArg :
          req' = [req EXCEPT ![p] = GenerateCall(m, sid, n)]
    /\ pc' = [pc EXCEPT ![p] = "llm_prepare"]
    /\ started' = started + 1
    /\ obs' = [obs EXCEPT ![p] = NoObs]
    /\ UNCHANGED <<container, clock, nextId, cosmos_enabled, loc, resp>>

\* mutant: the user turn is not written before the call of the model
ChatSaveUserLate(p, ticks) ==
    /\ pc[p] = "chat_save_user"
    /\ pc' = [pc EXCEPT ![p] = "llm_prepare"]
    /\ UNCHANGED <<container, clock, nextId, cosmos_enabled, started, req, loc, resp, obs>>

\* mutant: a failed create_item is logged and swallowed
SaveRaisesSwallowed(ok) == FALSE

\* save_message_to_cosmos (app.py, line 94) has no try: what create_item
\* raises leaves it
SaveRaises(ok) == ~ok

\* chat, lines 101-112: the user turn
ChatSaveUser(p, ticks) ==
    /\ pc[p] = "chat_save_user"
    /\ \E t \in ClockReads(ticks), ok \in BOOLEAN :
          LET o == IF ok THEN [obs[p] EXCEPT !.writes = @ + 1, !.userTurn = nextId]
                   ELSE [obs[p] EXCEPT !.writeFailed = TRUE]
          IN
          /\ clock' = t
          /\ nextId' = nextId + 1
          /\ container' = IF ok
                          THEN CreateItem(container,
                                   NewMessage(NewId(nextId), req[p].session_id, req[p].user_id, "user",
                                              req[p].message, t, <<>>))
                          ELSE container
          /\ IF SaveRaises(ok)
             THEN Raise(p, "StoreError", o)
             ELSE /\ pc' = [pc EXCEPT ![p] = "llm_prepare"]
                  /\ obs' = [obs EXCEPT ![p] = o]
                  /\ resp' = resp
    /\ UNCHANGED <<cosmos_enabled, started, req, loc>>

\* mutant: the delay is applied before every attempt
SleepBeforeAlways(attempt) == TRUE

\* line 140: if attempt > 0
SleepBefore(attempt) == attempt > 0

\* call_llm_async_with_retry, lines 119-138: the history read, the search
\* call, the prompt and the entry of the retry loop (no suspension point
\* lies between them); a failed search call has no "value" to return
LlmPrepare(p, replies) ==
    /\ pc[p] = "llm_prepare"
    /\ \E idsFail \in ReadOutcomes(cosmos_enabled), ok \in BOOLEAN, raw \in replies :
       \E failing \in SUBSET QueriedSessions(container, cosmos_enabled, HistoryKey(req[p]),
                                             HistoryLimit, idsFail) :
          LET cosmos_messages ==
                  get_last_messages_from_cosmos(container, cosmos_enabled,
                      HistoryKey(req[p]), HistoryLimit, idsFail, failing)
              results == IF ok THEN raw ELSE <<>>
              o == [obs[p] EXCEPT !.search = @ + 1, !.raw = results, !.searchFailed = ~ok]
              top_chunks == query_azure_search(results, TopK)
          IN  IF RaiseForStatus(ok)
              THEN /\ Raise(p, "SearchError", o)
                   /\ loc' = [loc EXCEPT ![p].cosmos_messages = cosmos_messages]
              ELSE IF PromptRaises(cosmos_messages)
              THEN /\ Raise(p, "KeyError", o)
                   /\ loc' = [loc EXCEPT ![p].cosmos_messages = cosmos_messages,
                                         ![p].top_chunks = top_chunks]
              ELSE /\ loc' = [loc EXCEPT ![p].cosmos_messages = cosmos_messages,
                                         ![p].top_chunks = top_chunks,
                                         ![p].chat_prompt = BuildChatPrompt(
                                             cosmos_messages, top_chunks, req[p].message)]
                   /\ IF 0 < req[p].max_retries
                      THEN /\ pc' = [pc EXCEPT ![p] =
                                     IF SleepBefore(0) THEN "llm_sleep" ELSE "llm_call"]
                           /\ obs' = [obs EXCEPT ![p] = o]
                           /\ resp' = resp
                      ELSE Return(p, NoData, o)
    /\ UNCHANGED <<container, clock, nextId, cosmos_enabled, started, req>>

\* await asyncio.sleep(delay), line 141
LlmSleep(p) ==
    /\ pc[p] = "llm_sleep"
    /\ pc' = [pc EXCEPT ![p] = "llm_call"]
    /\ obs' = [obs EXCEPT ![p].sleep = @ + 1]
    /\ UNCHANGED <<container, clock, nextId, cosmos_enabled, started, req, loc, resp>>

\* mutant: the except clause re-raises one attempt early
LastAttemptEarly(attempt, max_retries) == attempt >= max_retries - 2

\* line 199: the except clause re-raises on the last attempt
LastAttempt(attempt, max_retries) == attempt >= max_retries - 1

\* one attempt, lines 143-208: the completion call, then the return or the
\* except clause and the next turn of the loop; "malformed" is a completion
\* without choices; after the loop last_response is None and last_error is set
LlmCall(p, outcomes, answers) ==
    /\ pc[p] = "llm_call"
    /\ \E out \in outcomes, ans \in answers :
          LET o == [obs[p] EXCEPT !.gen = @ + 1, !.fails = IF out = "ok" THEN @ ELSE @ + 1,
                                  !.last = out]
              e == IF out = "error" THEN "LlmError" ELSE "IndexError"
          IN  IF out = "ok"
              THEN /\ loc' = [loc EXCEPT ![p].response_data =
                                 [kind |-> "dict", response |-> ans,
                                  top_chunks |-> TopAttributions(loc[p].top_chunks)]]
                   /\ Return(p, loc'[p].response_data, o)
              ELSE IF LastAttempt(loc[p].attempt, req[p].max_retries)
              THEN /\ loc' = [loc EXCEPT ![p].last_error = e]
                   /\ Raise(p, e, o)
              ELSE IF loc[p].attempt + 1 < req[p].max_retries
              THEN /\ loc' = [loc EXCEPT ![p].last_error = e, ![p].attempt = @ + 1]
                   /\ pc' = [pc EXCEPT ![p] =
                             IF SleepBefore(loc[p].attempt + 1) THEN "llm_sleep" ELSE "llm_call"]
                   /\ obs' = [obs EXCEPT ![p] = o]
                   /\ resp' = resp
              ELSE /\ loc' = [loc EXCEPT ![p].last_error = e]
                   /\ Raise(p, e, o)
    /\ UNCHANGED <<container, clock, nextId, cosmos_enabled, started, req>>

\* ScoreOnly(search_score=..., reranker_score=...) for top_chunks[0] and [1]
ScoreOnly(top_chunks) ==
    LET cut == Prefix(top_chunks, 2)
    IN  [i \in DOMAIN cut |->
            [search_score |-> cut[i].search_score, reranker_score |-> cut[i].reranker_score]]

\* f"{response_text}": the text, or "None" for None
FormatText(response_text) == IF response_text = NoneContent THEN NoneText ELSE response_text

\* ChatResponse(response=response_text, ...): response is declared str, and
\* the model's validation raises for None
ChatResponseRaises(response_text) == response_text = NoneContent

\* chat, lines 119-160: the assistant turn and the response
ChatSaveAssistant(p, ticks) ==
    /\ pc[p] = "chat_save_assistant"
    /\ IF loc[p].response_data.kind = "none"
       THEN /\ Raise(p, "TypeError", obs[p])
            /\ UNCHANGED <<container, clock, nextId>>
       ELSE \E t \in ClockReads(ticks), ok \in BOOLEAN :
              LET data == loc[p].response_data
                  o == IF ok THEN [obs[p] EXCEPT !.writes = @ + 1, !.asstTurn = nextId]
                       ELSE [obs[p] EXCEPT !.writeFailed = TRUE]
              IN
              /\ clock' = t
              /\ nextId' = nextId + 1
              /\ container' = IF ok
                              THEN CreateItem(container,
                                       NewMessage(NewId(nextId), req[p].session_id, req[p].user_id,
                                                  "assistant",
                                                  FormatText(data.response) \o ElapsedNote, t,
                                                  data.top_chunks))
                              ELSE container
              /\ IF SaveRaises(ok)
                 THEN Raise(p, "StoreError", o)
                 ELSE IF ChatResponseRaises(data.response)
                 THEN Raise(p, "ValidationError", o)
                 ELSE /\ pc' = [pc EXCEPT ![p] = "done"]
                      /\ obs' = [obs EXCEPT ![p] = o]
                      /\ resp' = [resp EXCEPT ![p] =
                                    [NoResp EXCEPT !.kind = "json", !.status = 200,
                                                   !.data = data,
                                                   !.scores = ScoreOnly(data.top_chunks)]]
    /\ UNCHANGED <<cosmos_enabled, started, req, loc>>

---------------------------------------------------------------------------
(* update_feedback (app.py) *)

\* mutant: the feedback value is not validated
InvalidInputIdsOnly(r) == r.id = EmptyId \/ r.session_id = EmptyStr

\* line 172
InvalidInput(r) ==
    \/ r.id = EmptyId
    \/ r.feedback \notin {"positive", "negative"}
    \/ r.session_id = EmptyStr

\* mutant: an empty lookup result is not checked
NotFoundNever(items) == FALSE

\* line 179: if not items
NotFound(items) == items = <<>>

\* mutant: the record is rebuilt from the request and loses its content
WithFeedbackRebuilt(item, feedback) == [item EXCEPT !.feedback = feedback, !.content = <<>>]

\* line 183: item['feedback'] = feedback
WithFeedback(item, feedback) == [item EXCEPT !.feedback = feedback]

\* line 186
FeedbackOk(r) ==
    [NoResp EXCEPT !.kind = "json", !.status = 200, !.messageId = r.id, !.feedback = r.feedback]

\* one whole call of update_feedback on container c in which no store call
\* raises; items[0] of an empty list raises IndexError into the except clause
update_feedback(c, r) ==
    IF InvalidInput(r)
    THEN [container |-> c, resp |-> JsonError(400, "Invalid input")]
    ELSE LET items == QueryById(c, r.id)
         IN  IF NotFound(items)
             THEN [container |-> c, resp |-> JsonError(404, "Message not found in database")]
             ELSE IF items = <<>>
             THEN [container |-> c, resp |-> JsonError(500, "Failed to update feedback")]
             ELSE [container |-> ReplaceItem(c, r.id, WithFeedback(items[1], r.feedback)),
                   resp |-> FeedbackOk(r)]

\* the feedback requests: every value with a session id, and one valid value
\* without; the ids are the empty one, those drawn so far and the next one
FeedbackInputs(ids) ==
    {FeedbackRequest(id, fb, "a") : id \in ids, fb \in FeedbackValues}
    \cup {FeedbackRequest(id, "positive", EmptyStr) : id \in ids}

StartFeedback(p, limit) ==
    /\ pc[p] = "idle"
    /\ started < limit
    /\ \E r \in FeedbackInputs(0..nextId) : req' = [req EXCEPT ![p] = r]
    /\ pc' = [pc EXCEPT ![p] = "fb_query"]
    /\ started' = started + 1
    /\ obs' = [obs EXCEPT ![p] = NoObs]
    /\ UNCHANGED <<container, clock, nextId, cosmos_enabled, loc, resp>>

\* lines 168-182: the validation and the lookup by id
FeedbackQuery(p) ==
    /\ pc[p] = "fb_query"
    /\ IF InvalidInput(req[p])
       THEN /\ resp' = [resp EXCEPT ![p] = JsonError(400, "Invalid input")]
            /\ pc' = [pc EXCEPT ![p] = "done"]
            /\ UNCHANGED <<loc, obs>>
       ELSE \E ok \in BOOLEAN :
              LET items == QueryById(container, req[p].id) IN
              /\ obs' = [obs EXCEPT ![p].reads = @ + 1, ![p].lookupFailed = ~ok]
              /\ IF ~ok
                 THEN /\ resp' = [resp EXCEPT ![p] = JsonError(500, "Failed to update feedback")]
                      /\ pc' = [pc EXCEPT ![p] = "done"]
                      /\ loc' = loc
                 ELSE IF NotFound(items)
                 THEN /\ resp' = [resp EXCEPT ![p] =
                                    JsonError(404, "Message not found in database")]
                      /\ pc' = [pc EXCEPT ![p] = "done"]
                      /\ loc' = loc
                 ELSE IF items = <<>>
                 THEN /\ resp' = [resp EXCEPT ![p] = JsonError(500, "Failed to update feedback")]
                      /\ pc' = [pc EXCEPT ![p] = "done"]
                      /\ loc' = loc
                 ELSE /\ loc' = [loc EXCEPT ![p].items = items]
                      /\ pc' = [pc EXCEPT ![p] = "fb_replace"]
                      /\ resp' = resp
    /\ UNCHANGED <<container, clock, nextId, cosmos_enabled, started, req>>

\* lines 182-189: the item read is written back with the new feedback
FeedbackReplace(p) ==
    /\ pc[p] = "fb_replace"
    /\ \E ok \in BOOLEAN :
          IF ok
          THEN /\ container' = ReplaceItem(container, req[p].id,
                                   WithFeedback(loc[p].items[1], req[p].feedback))
               /\ resp' = [resp EXCEPT ![p] = FeedbackOk(req[p])]
               /\ obs' = [obs EXCEPT ![p].writes = @ + 1]
          ELSE /\ container' = container
               /\ resp' = [resp EXCEPT ![p] = JsonError(500, "Failed to update feedback")]
               /\ obs' = [obs EXCEPT ![p].writeFailed = TRUE]
    /\ pc' = [pc EXCEPT ![p] = "done"]
    /\ UNCHANGED <<clock, nextId, cosmos_enabled, started, req, loc>>

\* the response has been sent: the task ends and its slot is free again
Finish(p) ==
    /\ pc[p] = "done"
    /\ pc' = [pc EXCEPT ![p] = "idle"]
    /\ req' = [req EXCEPT ![p] = NoReq]
    /\ loc' = [loc EXCEPT ![p] = NoLoc]
    /\ resp' = [resp EXCEPT ![p] = NoResp]
    /\ obs' = [obs EXCEPT ![p] = NoObs]
    /\ UNCHANGED <<container, clock, nextId, cosmos_enabled, started>>

---------------------------------------------------------------------------
(* The service: concurrent /chat and /update-feedback requests.  The store *)
(* outlives the process: at start it is empty or holds the user turn of an  *)
(* earlier request.                                                         *)

PriorTurn == NewMessage(1, "a", "a", "user", <<"q">>, 0, <<>>)
InitialContainers == {<<>>, <<PriorTurn>>}

InitTasks(tasks) ==
    /\ container \in InitialContainers
    /\ clock = 0
    /\ nextId = Len(container) + 1
    /\ started = 0
    /\ pc = [p \in tasks |-> "idle"]
    /\ req = [p \in tasks |-> NoReq]
    /\ loc = [p \in tasks |-> NoLoc]
    /\ resp = [p \in tasks |-> NoResp]
    /\ obs = [p \in tasks |-> NoObs]

Init == InitTasks(Procs) /\ cosmos_enabled = TRUE

Next ==
    \E p \in Procs :
        \/ StartChat(p, MaxRequests)
        \/ StartFeedback(p, MaxRequests)
        \/ ChatSaveUser(p, MainTicks)
        \/ LlmPrepare(p, MainReplies)
        \/ LlmSleep(p)
        \/ LlmCall(p, MainOutcomes, Answers)
        \/ ChatSaveAssistant(p, MainTicks)
        \/ FeedbackQuery(p)
        \/ FeedbackReplace(p)
        \/ Finish(p)

Spec == Init /\ [][Next]_vars

(* One call: a chat request or a direct call of call_llm_async_with_retry   *)
(* with any max_retries, any reply of the search oracle, any outcome of     *)
(* each attempt.                                                            *)

InitGen == InitTasks(GenProcs) /\ cosmos_enabled \in BOOLEAN

NextGen ==
    \E p \in GenProcs :
        \/ StartChat(p, 1)
        \/ StartGenerate(p, 1)
        \/ ChatSaveUser(p, AllTicks)
        \/ LlmPrepare(p, AllReplies)
        \/ LlmSleep(p)
        \/ LlmCall(p, AllOutcomes, AllAnswers)
        \/ ChatSaveAssistant(p, AllTicks)

SpecGen == InitGen /\ [][NextGen]_vars

(* Calls of update_feedback, one after the other, on a store written       *)
(* earlier: up to MaxTurns turns, each with any feedback value a turn can   *)
(* carry.                                                                   *)

\* the stores of up to maxTurns turns
FeedbackStores(maxTurns) ==
    UNION {{[i \in 1..n |-> WithFeedback(NewMessage(i, "a", "u", "user", <<"q">>, i, <<>>), f[i])] :
                f \in [1..n -> {"null", "positive", "negative"}]} : n \in 0..maxTurns}

InitFb ==
    /\ container \in FeedbackStores(MaxTurns)
    /\ clock = MaxTurns
    /\ nextId = Len(container) + 1
    /\ cosmos_enabled = TRUE
    /\ started = 0
    /\ pc = [p \in GenProcs |-> "idle"]
    /\ req = [p \in GenProcs |-> NoReq]
    /\ loc = [p \in GenProcs |-> NoLoc]
    /\ resp = [p \in GenProcs |-> NoResp]
    /\ obs = [p \in GenProcs |-> NoObs]

NextFb ==
    \E p \in GenProcs :
        \/ StartFeedback(p, 2)
        \/ FeedbackQuery(p)
        \/ FeedbackReplace(p)
        \/ Finish(p)

SpecFb == InitFb /\ [][NextFb]_vars

(* One call of get_last_messages_from_cosmos(user_id, limit) on a store     *)
(* written earlier, by this process or another: up to MaxTurns turns of two *)
(* users in three sessions, in any order of creation, with equal timestamps *)
(* allowed.                                                                 *)

HistUsers == {"a", "u"}
HistSessions == {"a", "b", "c"}
HistTimes == {0, 1}

\* the stores of up to maxTurns turns
HistoryStores(maxTurns) ==
    UNION {{[i \in 1..n |-> NewMessage(i, f[i][1], f[i][2], "user", <<"q">>, f[i][3], <<>>)] :
                f \in [1..n -> HistSessions \X HistUsers \X HistTimes]} : n \in 0..maxTurns}

\* the message queries that may fail in one fetch: none, or that of one session
OneFailure == {{}} \cup {{s} : s \in HistSessions}

FetchCall(user_id, limit) == [NoReq EXCEPT !.op = "fetch", !.user_id = user_id, !.limit = limit]

StartFetch(p, limit) ==
    /\ pc[p] = "idle"
    /\ started < limit
    /\ \E u \in HistUsers, n \in 0..MaxLimit : req' = [req EXCEPT ![p] = FetchCall(u, n)]
    /\ pc' = [pc EXCEPT ![p] = "fetch"]
    /\ started' = started + 1
    /\ obs' = [obs EXCEPT ![p] = NoObs]
    /\ UNCHANGED <<container, clock, nextId, cosmos_enabled, loc, resp>>

\* the whole call: no store read when cosmos_enabled is False; otherwise the
\* session-id query and, if it returned sessions, one query per session
Fetch(p) ==
    /\ pc[p] = "fetch"
    /\ \E idsFail \in (IF cosmos_enabled THEN BOOLEAN ELSE {FALSE}) :
       \E failing \in (IF cosmos_enabled /\ ~idsFail THEN OneFailure ELSE {{}}) :
          /\ resp' = [resp EXCEPT ![p] =
                [NoResp EXCEPT !.kind = "return",
                               !.history = get_last_messages_from_cosmos(container,
                                   cosmos_enabled, req[p].user_id, req[p].limit,
                                   idsFail, failing)]]
          /\ obs' = [obs EXCEPT ![p].idsFailed = idsFail, ![p].failing = failing,
                                ![p].reads = IF cosmos_enabled THEN 1 ELSE 0]
    /\ pc' = [pc EXCEPT ![p] = "done"]
    /\ UNCHANGED <<container, clock, nextId, cosmos_enabled, started, req, loc>>

InitHist ==
    /\ container \in HistoryStores(MaxTurns)
    /\ clock = 1
    /\ nextId = Len(container) + 1
    /\ cosmos_enabled \in BOOLEAN
    /\ started = 0
    /\ pc = [p \in GenProcs |-> "idle"]
    /\ req = [p \in GenProcs |-> NoReq]
    /\ loc = [p \in GenProcs |-> NoLoc]
    /\ resp = [p \in GenProcs |-> NoResp]
    /\ obs = [p \in GenProcs |-> NoObs]

NextHist == \E p \in GenProcs : StartFetch(p, 1) \/ Fetch(p)

SpecHist == InitHist /\ [][NextHist]_vars

---------------------------------------------------------------------------
(* Properties *)

Tasks == DOMAIN pc
ValidFeedback == {"positive", "negative"}
ErrorOf(out) == IF out = "error" THEN "LlmError" ELSE "IndexError"
Stored(id) == \E i \in DOMAIN container : container[i].id = id
ItemOf(id) == container[CHOOSE i \in DOMAIN container : container[i].id = id]

\* the user turn task p appended is in the store, as the request gave it
UserTurnStored(p) ==
    /\ obs[p].userTurn # 0
    /\ Stored(obs[p].userTurn)
    /\ ItemOf(obs[p].userTurn).role = "user"
    /\ ItemOf(obs[p].userTurn).content = req[p].message
    /\ ItemOf(obs[p].userTurn).session_id = req[p].session_id
    /\ ItemOf(obs[p].userTurn).user_id = req[p].user_id

\* C1: in a chat request the user turn is in the store before the generation
\* oracle is first invoked, and the assistant turn is appended only after an
\* attempt of that request succeeded (and after its user turn); every
\* assistant turn in the store follows a user turn of the same session.
C1_UserTurnBeforeGeneration ==
    /\ \A p \in Tasks : req[p].op = "chat" =>
          /\ (obs[p].gen > 0 \/ pc[p] \in {"llm_call", "llm_sleep", "chat_save_assistant"})
                => UserTurnStored(p)
          /\ pc[p] = "chat_save_assistant" => obs[p].last = "ok"
          /\ obs[p].asstTurn # 0 =>
                /\ obs[p].last = "ok"
                /\ obs[p].gen > 0
                /\ UserTurnStored(p)
                /\ obs[p].userTurn < obs[p].asstTurn
                /\ Stored(obs[p].asstTurn)
                /\ ItemOf(obs[p].asstTurn).role = "assistant"
    /\ \A i \in DOMAIN container : container[i].role = "assistant" =>
          \E j \in 1..(i - 1) :
              /\ container[j].role = "user"
              /\ container[j].session_id = container[i].session_id
              /\ container[j].user_id = container[i].user_id

\* a chat request answered after a failed first attempt, both turns stored
C1_Witness ==
    \E p \in Tasks :
        /\ req[p].op = "chat" /\ pc[p] = "done" /\ resp[p].status = 200
        /\ obs[p].fails > 0 /\ obs[p].asstTurn # 0 /\ UserTurnStored(p)

\* C2: when every one of the 3 attempts of a chat request fails, the caller
\* gets a 500 carrying the last attempt's error, no assistant turn is
\* appended, and the user turn of the request is in the store.
C2_ExhaustedKeepsUserTurn ==
    \A p \in Tasks : (req[p].op = "chat" /\ obs[p].fails = 3) =>
        /\ pc[p] = "done"
        /\ resp[p].kind = "json" /\ resp[p].status = 500
        /\ resp[p].error = ErrorOf(obs[p].last)
        /\ obs[p].gen = 3
        /\ obs[p].asstTurn = 0
        /\ UserTurnStored(p)

C2_Witness ==
    \E p \in Tasks :
        /\ req[p].op = "chat" /\ pc[p] = "done" /\ obs[p].fails = 3
        /\ resp[p].status = 500 /\ UserTurnStored(p)

\* C3: a call with max_retries = N never invokes the oracle more than N
\* times; while fewer than N attempts have failed it goes on trying; and
\* when attempt k succeeds after k-1 failures it returns that answer, with
\* no error, after exactly k invocations.
C3_RetryUntilSuccess ==
    \A p \in Tasks : req[p].op \in {"generate", "chat"} =>
        /\ obs[p].gen <= req[p].max_retries
        /\ (obs[p].gen > 0 /\ obs[p].last # "ok" /\ obs[p].fails < req[p].max_retries)
              => pc[p] \in {"llm_sleep", "llm_call"}
        /\ obs[p].last = "ok" =>
              /\ obs[p].gen = obs[p].fails + 1
              /\ loc[p].response_data.kind = "dict"
              /\ loc[p].response_data.response \in AllAnswers
              /\ req[p].op = "generate" =>
                    /\ pc[p] = "done"
                    /\ resp[p].kind = "return"
                    /\ resp[p].error = "none"
                    /\ resp[p].data = loc[p].response_data

\* scenario B: two failures, then success on the 3rd attempt of 3
C3_Witness ==
    \E p \in Tasks :
        /\ req[p].op = "generate" /\ req[p].max_retries = 3
        /\ obs[p].fails = 2 /\ obs[p].gen = 3 /\ obs[p].last = "ok"
        /\ resp[p].kind = "return" /\ resp[p].data.response \in Answers

\* C4: for every max_retries >= 0, a call of call_llm_async_with_retry in
\* which no attempt succeeded ends by raising (the exception of its last
\* attempt, when it made one); it never returns a value.
C4_NoValueWithoutSuccess ==
    \A p \in Tasks : (req[p].op = "generate" /\ pc[p] = "done" /\ obs[p].last # "ok") =>
        /\ resp[p].kind = "raise"
        /\ obs[p].gen > 0 => resp[p].error = ErrorOf(obs[p].last)

\* C5: when the search call of a chat request fails, the request is over
\* with a 500, the search oracle was called once, the generation oracle was
\* not invoked and no assistant turn was appended.
C5_SearchFailureAborts ==
    \A p \in Tasks : (req[p].op = "chat" /\ obs[p].searchFailed) =>
        /\ pc[p] = "done"
        /\ resp[p].kind = "json" /\ resp[p].status = 500
        /\ obs[p].search = 1
        /\ obs[p].gen = 0
        /\ obs[p].asstTurn = 0
        /\ obs[p].writes = 1

C5_Witness ==
    \E p \in Tasks :
        /\ req[p].op = "chat" /\ obs[p].searchFailed /\ pc[p] = "done"
        /\ resp[p].status = 500 /\ obs[p].search = 1

\* the largest reranker score of a reply (a hit without one counts as 0)
MaxRerank(raw) ==
    CHOOSE m \in {Get0(raw[i].rerank) : i \in DOMAIN raw} :
        \A i \in DOMAIN raw : Get0(raw[i].rerank) <= m

C7_InvalidFeedbackRejected ==
    /\ \A p \in Tasks : (req[p].op = "feedback" /\ req[p].feedback \notin ValidFeedback) =>
          /\ pc[p] \in {"fb_query", "done"}
          /\ obs[p].reads = 0
          /\ obs[p].writes = 0
          /\ pc[p] = "done" => (resp[p].kind = "json" /\ resp[p].status = 400)
    /\ \A i \in DOMAIN container : container[i].feedback \in ValidFeedback \cup {"null"}

\* an invalid value aimed at an existing turn, with a session id: rejected
C7_Witness ==
    \E p \in Tasks :
        /\ req[p].op = "feedback" /\ pc[p] = "done"
        /\ req[p].feedback = "neutral" /\ req[p].session_id # EmptyStr
        /\ Stored(req[p].id)
        /\ resp[p].status = 400 /\ obs[p].reads = 0

\* C8: update_feedback with a valid feedback value and an id that matches no
\* stored turn, in a request that passes validation (both identifiers given)
\* and whose lookup does not itself fail, answers 404 (not 400, not 500)
\* after one store read and no write.
C8_NotFoundWhenLookupSucceeds ==
    \A p \in Tasks :
        (/\ req[p].op = "feedback" /\ pc[p] = "done"
         /\ req[p].feedback \in ValidFeedback
         /\ req[p].id # EmptyId
         /\ req[p].session_id # EmptyStr
         /\ ~obs[p].lookupFailed
         /\ ~Stored(req[p].id))
        => /\ resp[p].kind = "json" /\ resp[p].status = 404
           /\ obs[p].reads = 1
           /\ obs[p].writes = 0

C8_Witness ==
    \E p \in Tasks :
        /\ req[p].op = "feedback" /\ pc[p] = "done"
        /\ req[p].feedback \in ValidFeedback /\ req[p].id # EmptyId
        /\ req[p].session_id # EmptyStr /\ ~Stored(req[p].id)
        /\ container # <<>>
        /\ resp[p].status = 404

\* C9: on every reachable store, a call of update_feedback that succeeds,
\* made again with the same arguments, returns the same result and leaves the
\* store as the first call left it; and the call does succeed, and sets the
\* feedback, for every stored turn, valid value and non-empty session id.
C9_FeedbackIdempotent ==
    \A r \in FeedbackInputs(0..nextId) :
        LET once == update_feedback(container, r)
            twice == update_feedback(once.container, r)
        IN  /\ once.resp.status = 200 =>
                  /\ twice.container = once.container
                  /\ twice.resp = once.resp
            /\ (Stored(r.id) /\ r.feedback \in ValidFeedback /\ r.session_id # EmptyStr) =>
                  /\ once.resp.status = 200
                  /\ Len(once.container) = Len(container)
                  /\ \A i \in DOMAIN container :
                        once.container[i].feedback =
                            IF container[i].id = r.id THEN r.feedback ELSE container[i].feedback

\* a second successful call with the value the turn already carried
C9_Witness ==
    \E p \in Tasks :
        /\ req[p].op = "feedback" /\ pc[p] = "done" /\ resp[p].status = 200
        /\ loc[p].items[1].feedback = req[p].feedback
        /\ update_feedback(container, req[p]).container = container

\* all of a turn but its feedback
Frozen(item) ==
    <<item.id, item.session_id, item.user_id, item.user_roles, item.role, item.content,
      item.timestamp, item.top_chunks>>

\* C10: a step never removes or reorders turns and never changes a field of
\* a stored turn other than feedback; a step that changes a stored turn is
\* the replace of an update_feedback task, and changes only the feedback of
\* the turn whose id the task was given, to the value it was given.
C10_TurnsImmutable ==
    [][/\ Len(container') >= Len(container)
       /\ \A i \in DOMAIN container : Frozen(container'[i]) = Frozen(container[i])
       /\ \A i \in DOMAIN container : container'[i] # container[i] =>
             \E p \in Tasks :
                 /\ pc[p] = "fb_replace" /\ pc'[p] = "done"
                 /\ resp'[p].status = 200
                 /\ container[i].id = req[p].id
                 /\ container'[i].feedback = req[p].feedback
                 /\ \A j \in DOMAIN container : j # i => container'[j] = container[j]]_vars

\* two updates of the same turn with different values: the turn carries one
\* of them, and is otherwise as it was appended
C10_Witness ==
    \E p, q \in Tasks :
        /\ p # q
        /\ req[p].op = "feedback" /\ req[q].op = "feedback"
        /\ resp[p].status = 200 /\ resp[q].status = 200
        /\ req[p].id = req[q].id /\ req[p].feedback # req[q].feedback
        /\ ItemOf(req[p].id).feedback = req[q].feedback
        /\ obs[p].writes = 1 /\ obs[q].writes = 1

\* C11: a chat request that answers its caller with a failure has appended
\* no assistant turn, and a request that appended an assistant turn answers
\* 200.
C11_NoPartialSuccess ==
    \A p \in Tasks : req[p].op = "chat" =>
        /\ (pc[p] = "done" /\ resp[p].status # 200) => obs[p].asstTurn = 0
        /\ obs[p].asstTurn # 0 => (pc[p] = "done" /\ resp[p].status = 200)

\* C12: a task one of whose store writes failed (the user-turn append, the
\* assistant-turn append, the replace of update_feedback) is over with a 500;
\* a chat request whose user-turn append failed called neither the search
\* nor the generation oracle; and a task that answered 200 made all its
\* writes: both turns of a chat request are stored, and an update_feedback
\* made its one replace on a stored turn.
C12_FailedWriteVisible ==
    \A p \in Tasks :
        /\ obs[p].writeFailed =>
              /\ pc[p] = "done"
              /\ resp[p].kind = "json" /\ resp[p].status = 500
              /\ (req[p].op = "chat" /\ obs[p].userTurn = 0) =>
                    (obs[p].search = 0 /\ obs[p].gen = 0 /\ obs[p].writes = 0)
              /\ req[p].op = "chat" => obs[p].asstTurn = 0
        /\ (req[p].op = "chat" /\ resp[p].status = 200) =>
              /\ obs[p].writes = 2
              /\ Stored(obs[p].userTurn) /\ Stored(obs[p].asstTurn)
        /\ (req[p].op = "feedback" /\ resp[p].status = 200) =>
              /\ obs[p].writes = 1
              /\ Stored(req[p].id)
              /\ ItemOf(req[p].id).feedback \in ValidFeedback

\* a chat request whose assistant-turn append failed after a successful
\* attempt, beside an update_feedback whose replace failed
C12_Witness ==
    \E p, q \in Tasks :
        /\ req[p].op = "chat" /\ pc[p] = "done" /\ obs[p].writeFailed
        /\ obs[p].last = "ok" /\ obs[p].userTurn # 0 /\ resp[p].status = 500
        /\ req[q].op = "feedback" /\ pc[q] = "done" /\ obs[q].writeFailed
        /\ obs[q].reads = 1 /\ resp[q].status = 500

\* C13: for every user, store and limit >= 0, the history a fetch returns
\* holds at most limit sessions, and no session twice.
C13_AtMostLimitSessions ==
    \A p \in Tasks : (req[p].op = "fetch" /\ pc[p] = "done") =>
        LET h == resp[p].history
        IN  /\ Len(h) <= req[p].limit
            /\ \A i, j \in DOMAIN h : h[i].session_id = h[j].session_id => i = j

\* the sessions a fetch selects when its session-id query succeeds
Selected(p) == get_latest_session_ids(container, req[p].user_id, req[p].limit)

\* a store read of the fetch of task p failed
ReadFailed(p) ==
    \/ obs[p].idsFailed
    \/ \E k \in DOMAIN Selected(p) : Selected(p)[k] \in obs[p].failing

\* C14 as stated: a fetch returns to its caller, and returns the empty list
\* whenever the store is disabled or one of its store reads failed.
C14_EmptyOnAnyReadFailure ==
    \A p \in Tasks : (req[p].op = "fetch" /\ pc[p] = "done") =>
        /\ resp[p].kind = "return"
        /\ (~cosmos_enabled \/ ReadFailed(p)) => resp[p].history = <<>>

\* C14 amended: a fetch returns to its caller; it returns the empty list,
\* without a store read when the store is disabled, and when its session-id
\* query failed; when the message query of a selected session failed, the
\* result is the selected sessions without that one, in their order.
C14_BestEffortFetch ==
    \A p \in Tasks : (req[p].op = "fetch" /\ pc[p] = "done") =>
        LET h == resp[p].history
            kept == SelectSeq(Selected(p), LAMBDA sid : sid \notin obs[p].failing)
        IN  /\ resp[p].kind = "return"
            /\ ~cosmos_enabled => (h = <<>> /\ obs[p].reads = 0)
            /\ obs[p].idsFailed => h = <<>>
            /\ (cosmos_enabled /\ ~obs[p].idsFailed) =>
                  /\ Len(h) = Len(kept)
                  /\ \A i \in DOMAIN h :
                        /\ h[i].session_id = kept[i]
                        /\ h[i].messages # <<>>

\* two sessions selected, the query of the newer one failed: the older one
\* is returned alone
C14_Witness ==
    \E p \in Tasks :
        /\ req[p].op = "fetch" /\ pc[p] = "done" /\ cosmos_enabled
        /\ Len(Selected(p)) = 2 /\ obs[p].failing = {Selected(p)[1]}
        /\ Len(resp[p].history) = 1
        /\ resp[p].history[1].session_id = Selected(p)[2]

\* the turns of the fetching user, their sessions, and the newest timestamp
\* of the user's turns in a session
UserTurns(p) == {i \in DOMAIN container : container[i].user_id = req[p].user_id}
UserSessions(p) == {container[i].session_id : i \in UserTurns(p)}
SessionTurns(p, sid) == {i \in UserTurns(p) : container[i].session_id = sid}
NewestIn(p, sid) ==
    CHOOSE t \in {container[i].timestamp : i \in SessionTurns(p, sid)} :
        \A i \in SessionTurns(p, sid) : container[i].timestamp <= t

\* C15: a fetch none of whose reads failed, on a store that holds more than
\* limit sessions of the user, returns exactly limit sessions of that user,
\* none less recently active than a session left out, in non-increasing
\* order of their newest turn, each with all the user's turns in it and no
\* other, in non-decreasing order of timestamp.
C15_MostRecentSessions ==
    \A p \in Tasks :
        (/\ req[p].op = "fetch" /\ pc[p] = "done"
         /\ cosmos_enabled /\ ~ReadFailed(p)
         /\ Cardinality(UserSessions(p)) > req[p].limit) =>
        LET h == resp[p].history
            chosen == {h[i].session_id : i \in DOMAIN h}
        IN  /\ Len(h) = req[p].limit
            /\ Cardinality(chosen) = Len(h)
            /\ chosen \subseteq UserSessions(p)
            /\ \A s \in chosen, u \in UserSessions(p) \ chosen :
                  NewestIn(p, s) >= NewestIn(p, u)
            /\ \A i, j \in DOMAIN h :
                  i < j => NewestIn(p, h[i].session_id) >= NewestIn(p, h[j].session_id)
            /\ \A i \in DOMAIN h :
                  LET ms == h[i].messages
                  IN  /\ {ms[k].id : k \in DOMAIN ms} =
                            {container[t].id : t \in SessionTurns(p, h[i].session_id)}
                      /\ Len(ms) = Cardinality(SessionTurns(p, h[i].session_id))
                      /\ \A k, l \in DOMAIN ms : k < l => ms[k].timestamp <= ms[l].timestamp
                      /\ \A k \in DOMAIN ms :
                            /\ ms[k].content = ItemOf(ms[k].id).content
                            /\ ms[k].role = ItemOf(ms[k].id).role
                            /\ ms[k].timestamp = ItemOf(ms[k].id).timestamp

\* the ids of the turns in the history task p fetched
HistoryIds(p) ==
    UNION {{loc[p].cosmos_messages[i].messages[k].id :
                k \in DOMAIN loc[p].cosmos_messages[i].messages} :
           i \in DOMAIN loc[p].cosmos_messages}

\* C16: every turn in the history fetched for a chat request is a turn of
\* the user_id of that request.
C16_HistoryKeyedByUser ==
    \A p \in Tasks : req[p].op = "chat" =>
        \A id \in HistoryIds(p) : ItemOf(id).user_id = req[p].user_id

\* C17: no two turns in the store share an id, so a lookup by id returns at
\* most one turn, and the item an update_feedback task replaces is the one
\* turn its lookup returned.
C17_IdsUnique ==
    /\ \A i, j \in DOMAIN container : container[i].id = container[j].id => i = j
    /\ \A id \in 0..nextId : Len(QueryById(container, id)) <= 1
    /\ \A p \in Tasks : pc[p] = "fb_replace" =>
          /\ Len(loc[p].items) = 1
          /\ loc[p].items[1].id = req[p].id

\* two concurrent chat requests have both appended their two turns to a
\* store that held a turn already
C17_Witness ==
    \E p, q \in Tasks :
        /\ p # q
        /\ obs[p].asstTurn # 0 /\ obs[q].asstTurn # 0
        /\ Len(container) = 5
        /\ Cardinality({container[i].id : i \in DOMAIN container}) = 5

\* the one turn the lookup by id returns, if it returns exactly one
Found(id) == QueryById(container, id)

\* C18: from the step that appended it on, the lookup by the id of a turn a
\* chat request appended returns exactly one turn, whose content, role and
\* session_id are those the request passed to save_message_to_cosmos.
C18_AppendThenLookup ==
    \A p \in Tasks : req[p].op = "chat" =>
        /\ obs[p].userTurn # 0 =>
              /\ Len(Found(obs[p].userTurn)) = 1
              /\ Found(obs[p].userTurn)[1].role = "user"
              /\ Found(obs[p].userTurn)[1].content = req[p].message
              /\ Found(obs[p].userTurn)[1].session_id = req[p].session_id
        /\ obs[p].asstTurn # 0 =>
              /\ Len(Found(obs[p].asstTurn)) = 1
              /\ Found(obs[p].asstTurn)[1].role = "assistant"
              /\ Found(obs[p].asstTurn)[1].content =
                    FormatText(loc[p].response_data.response) \o ElapsedNote
              /\ Found(obs[p].asstTurn)[1].session_id = req[p].session_id

\* both turns of a chat request of user "u" in session "b" are found by
\* their ids, as they were passed
C18_Witness ==
    \E p \in Tasks :
        /\ req[p].op = "chat" /\ req[p].session_id = "b" /\ req[p].user_id = "u"
        /\ obs[p].userTurn # 0 /\ obs[p].asstTurn # 0
        /\ Len(QueryById(container, obs[p].userTurn)) = 1
        /\ Len(QueryById(container, obs[p].asstTurn)) = 1
        /\ QueryById(container, obs[p].userTurn)[1].content = req[p].message
        /\ QueryById(container, obs[p].asstTurn)[1].session_id = "b"
        /\ QueryById(container, obs[p].asstTurn)[1].role = "assistant"

\* the turns of a history, session after session
RECURSIVE HistoryTurns(_)
HistoryTurns(h) == IF h = <<>> THEN <<>> ELSE Head(h).messages \o HistoryTurns(Tail(h))

\* C19: once the history has been fetched and the search call has returned,
\* the request has not failed on the history, and the message list built for
\* the generation oracle is one message per historical turn, with that
\* turn's role and content, in history order, followed by the assembled
\* prompt as a user message.
C19_HistoryBecomesMessages ==
    \A p \in Tasks :
        (req[p].op \in {"chat", "generate"} /\ obs[p].search > 0 /\ ~obs[p].searchFailed) =>
        LET turns == HistoryTurns(loc[p].cosmos_messages)
            chat_prompt == loc[p].chat_prompt
        IN  /\ resp[p].error # "KeyError"
            /\ Len(chat_prompt) = Len(turns) + 1
            /\ \A i \in DOMAIN turns :
                  /\ chat_prompt[i].role = turns[i].role
                  /\ chat_prompt[i].content = turns[i].content
            /\ chat_prompt[Len(chat_prompt)].role = "user"

\* C20: a call has slept once for each attempt it made after the first and
\* for the attempt it is about to make after a failure: no sleep before the
\* first attempt, none after the last, and k-1 sleeps in a call that ended
\* after k attempts, in success or in failure.
C20_SleepBetweenAttempts ==
    \A p \in Tasks : req[p].op \in {"chat", "generate"} =>
        /\ obs[p].gen = 0 => obs[p].sleep = 0
        /\ pc[p] = "llm_call" => obs[p].sleep = obs[p].gen
        /\ pc[p] = "llm_sleep" => (obs[p].gen > 0 /\ obs[p].sleep = obs[p].gen - 1)
        /\ (obs[p].gen > 0 /\ pc[p] \notin {"llm_call", "llm_sleep"}) =>
              obs[p].sleep = obs[p].gen - 1

\* a call of 4 attempts that ended in failure after 3 sleeps
C20_Witness ==
    \E p \in Tasks :
        /\ req[p].op = "generate" /\ req[p].max_retries = 4 /\ pc[p] = "done"
        /\ obs[p].gen = 4 /\ obs[p].fails = 4 /\ obs[p].sleep = 3
        /\ resp[p].kind = "raise"

\* the ids of the turns task p appended
OwnTurns(p) == {obs[p].userTurn, obs[p].asstTurn} \ {0}

\* C21: of two chat requests in flight with the same message, session_id and
\* user_id, each makes its own search call and its own attempts (a request
\* past the prompt has called the search oracle once itself, one that
\* answered 200 has made an attempt that succeeded itself), neither fails on
\* its history because of a turn of the other, the turns each appended are
\* stored under ids of their own, as that request wrote them, and when both
\* answered 200 these are two user turns and two assistant turns.
C21_ConcurrentChatsIsolated ==
    \A p, q \in Tasks :
        (p # q /\ req[p].op = "chat" /\ req[q] = req[p]) =>
        /\ pc[p] \in {"llm_call", "llm_sleep", "chat_save_assistant"} =>
              (obs[p].search = 1 /\ ~obs[p].searchFailed)
        /\ (pc[p] = "done" /\ resp[p].status = 200) =>
              /\ obs[p].search = 1
              /\ obs[p].gen >= 1 /\ obs[p].last = "ok"
              /\ obs[p].gen = obs[p].fails + 1
              /\ obs[p].writes = 2
        /\ resp[p].error = "KeyError" => HistoryIds(p) \ OwnTurns(q) # {}
        /\ OwnTurns(p) \cap OwnTurns(q) = {}
        /\ \A id \in OwnTurns(p) :
              /\ Len(Found(id)) = 1
              /\ Found(id)[1].session_id = req[p].session_id
              /\ Found(id)[1].user_id = req[p].user_id
              /\ Found(id)[1].role = IF id = obs[p].userTurn THEN "user" ELSE "assistant"
              /\ id = obs[p].userTurn => Found(id)[1].content = req[p].message
        /\ (resp[p].status = 200 /\ resp[q].status = 200) =>
              /\ Cardinality(OwnTurns(p) \cup OwnTurns(q)) = 4
              /\ Cardinality({i \in DOMAIN container :
                                 /\ container[i].id \in OwnTurns(p) \cup OwnTurns(q)
                                 /\ container[i].role = "user"}) = 2
              /\ Cardinality({i \in DOMAIN container :
                                 /\ container[i].id \in OwnTurns(p) \cup OwnTurns(q)
                                 /\ container[i].role = "assistant"}) = 2

\* two identical requests that overlapped (each appended its user turn
\* before the other appended its assistant turn) and both answered 200
C21_Witness ==
    \E p, q \in Tasks :
        /\ p # q /\ req[p].op = "chat" /\ req[q] = req[p]
        /\ resp[p].status = 200 /\ resp[q].status = 200
        /\ obs[p].userTurn < obs[q].userTurn
        /\ obs[q].userTurn < obs[p].asstTurn
        /\ obs[p].asstTurn < obs[q].asstTurn
        /\ obs[p].search = 1 /\ obs[q].search = 1
        /\ obs[p].gen >= 1 /\ obs[q].gen >= 1
        /\ Cardinality({i \in DOMAIN container : container[i].id \in OwnTurns(p) \cup OwnTurns(q)}) = 4

=============================================================================
